---- MODULE Spec2Model ----
(***************************************************************************)
(* Model of the time-tracking view plugin of src/main.ts: the duration     *)
(* arithmetic, the two line regexes, the tree built by buildDecorations    *)
(* from the list nodes of the syntax tree, setTasksDuration,               *)
(* displayDurations and the plugin's constructor / update handlers.        *)
(*                                                                         *)
(* A text is a sequence of one-character strings.  A task is a record of   *)
(* an arena (a sequence): task k is the k-th task created by the build,    *)
(* 0 names the synthetic root, and parent / children hold such indices.    *)
(***************************************************************************)
EXTENDS Integers, Sequences, FiniteSets, TLC

VARIABLES
    view,           \* the EditorView of the latest event: its visibleRanges,
                    \* each the list nodes syntaxTree(...).iterate enters
    lastUpdate,     \* the flags of the latest event
    decorations,    \* this.decorations: the builder.add calls, in call order
    tasks,          \* the tasks created by the latest build
    rootTask,       \* rootTask of the latest build
    currentParent,  \* currentParent when the latest build left the loop
    total,          \* what setTasksDuration(rootTask.children) returned
    sums,           \* every value sumDurations returned in the latest build
    status,         \* "none" | "built" | "threw": how the latest build ended
    builtView       \* the view of the latest event that asked for a build

vars == <<view, lastUpdate, decorations, tasks, rootTask, currentParent,
          total, sums, status, builtView>>

-----------------------------------------------------------------------------
(* Values of the language *)

Null == [null |-> TRUE]

\* rootTask has no parent property: reading it yields undefined
Undefined == -1

RootId == 0

-----------------------------------------------------------------------------
(* Characters and the character classes of the regular expressions *)

DigitChars == <<"0", "1", "2", "3", "4", "5", "6", "7", "8", "9">>

\* \d
IsDigit(c) == \E k \in 1..Len(DigitChars) : DigitChars[k] = c

DigitValue(c) == (CHOOSE k \in 1..Len(DigitChars) : DigitChars[k] = c) - 1

EnDash == "en-dash"

EmDash == "em-dash"

\* [-–—]
IsDash(c) == c \in {"-", EnDash, EmDash}

\* \s
IsSpace(c) == c \in {" ", "\t", "\n", "\r"}

\* . (no s flag): any character but a line terminator
IsDot(c) == c \notin {"\n", "\r"}

AllDot(s, a, b) == \A k \in a..b : IsDot(s[k])

\* \d\d:\d\d at index i (1-based) of s
IsTokenAt(s, i) ==
    /\ i >= 1
    /\ i + 4 <= Len(s)
    /\ IsDigit(s[i])
    /\ IsDigit(s[i + 1])
    /\ s[i + 2] = ":"
    /\ IsDigit(s[i + 3])
    /\ IsDigit(s[i + 4])

-----------------------------------------------------------------------------
(* Duration arithmetic *)

\* String.prototype.split with a one-character separator
RECURSIVE SplitFrom(_, _, _, _)
SplitFrom(s, sep, k, cur) ==
    IF k > Len(s) THEN <<cur>>
    ELSE IF s[k] = sep THEN <<cur>> \o SplitFrom(s, sep, k + 1, <<>>)
    ELSE SplitFrom(s, sep, k + 1, Append(cur, s[k]))

Split(s, sep) == SplitFrom(s, sep, 1, <<>>)

\* Number(...) of a string of decimal digits (Number("") is 0)
RECURSIVE ToNumber(_)
ToNumber(s) ==
    IF s = <<>> THEN 0
    ELSE ToNumber(SubSeq(s, 1, Len(s) - 1)) * 10 + DigitValue(s[Len(s)])

parseToMinutes(timeStr) ==
    LET parts == Split(timeStr, ":")
        hours == ToNumber(parts[1])
        minutes == ToNumber(parts[2])
    IN hours * 60 + minutes

sumDurationsNoCarry(dur1, dur2) ==
    [hours |-> dur1.hours + dur2.hours, minutes |-> dur1.minutes + dur2.minutes]

sumDurations(dur1, dur2) ==
    LET mins == (dur1.hours + dur2.hours) * 60 + dur1.minutes + dur2.minutes
    IN [hours |-> mins \div 60, minutes |-> mins % 60]

Abs(n) == IF n < 0 THEN -n ELSE n

diffDurationWrapped(timeStr1, timeStr2) ==
    LET minutes1 == parseToMinutes(timeStr1)
        minutes2 == parseToMinutes(timeStr2)
        difference == (minutes2 - minutes1) % (24 * 60)
    IN [hours |-> difference \div 60, minutes |-> difference % 60]

diffDuration(timeStr1, timeStr2) ==
    LET minutes1 == parseToMinutes(timeStr1)
        minutes2 == parseToMinutes(timeStr2)
        difference == Abs(minutes2 - minutes1)
    IN [hours |-> difference \div 60, minutes |-> difference % 60]

formatDuration(duration) ==
    LET minutes == ToString(duration.minutes) \o " mins"
    IN IF duration.hours > 0
       THEN ToString(duration.hours) \o " h " \o minutes
       ELSE minutes

-----------------------------------------------------------------------------
(* The line regexes *)

\* timeRangeRx = ^.*?(\d\d:\d\d).*?(\d\d:\d\d).*  : the lazy quantifiers take
\* the leftmost first token that a second, non-overlapping token follows on
\* the same line, and then the leftmost such second token.
timeRangeRxSecond(s, i) ==
    {j \in (i + 5)..Len(s) : IsTokenAt(s, j) /\ AllDot(s, i + 5, j - 1)}

timeRangeRxFirst(s) ==
    {i \in 1..Len(s) :
        IsTokenAt(s, i) /\ AllDot(s, 1, i - 1) /\ timeRangeRxSecond(s, i) # {}}

Min(S) == CHOOSE m \in S : \A n \in S : m <= n

timeRangeRxMatch(s) ==
    IF timeRangeRxFirst(s) = {} THEN Null
    ELSE LET i == Min(timeRangeRxFirst(s))
             j == Min(timeRangeRxSecond(s, i))
         IN [g1 |-> SubSeq(s, i, i + 4), g2 |-> SubSeq(s, j, j + 4)]

bulletNodeDuration(bulletValue) ==
    LET match == timeRangeRxMatch(bulletValue)
    IN IF match # Null THEN diffDuration(match.g1, match.g2) ELSE Null

\* the index after the run of \s starting at k
RECURSIVE SkipSpace(_, _)
SkipSpace(s, k) ==
    IF k <= Len(s) /\ IsSpace(s[k]) THEN SkipSpace(s, k + 1) ELSE k

\* (\s*[-–—]\s*\d\d:\d\d) starting at k: its length, or 0 when it does not match
RangeGroupLength(s, k) ==
    LET d == SkipSpace(s, k)
        t == SkipSpace(s, d + 1)
    IN IF d <= Len(s) /\ IsDash(s[d]) /\ IsTokenAt(s, t)
       THEN t + 5 - k
       ELSE 0

\* (\d\d:\d\d)(\s*[-–—]\s*\d\d:\d\d)?.*$  tried at index i: the greedy optional
\* group is taken when the rest then runs to the end of the text, dropped when
\* only that lets .*$ reach the end
markRxAt(s, i) ==
    IF ~IsTokenAt(s, i) THEN Null
    ELSE LET g == RangeGroupLength(s, i + 5)
         IN IF g > 0 /\ AllDot(s, i + 5 + g, Len(s))
            THEN [index |-> i - 1, g1 |-> 5, g2 |-> g, length |-> 3]
            ELSE IF AllDot(s, i + 5, Len(s))
            THEN [index |-> i - 1, g1 |-> 5, g2 |-> 0, length |-> 3]
            ELSE Null

\* RegExp.prototype.exec: the leftmost index at which the pattern matches
markRxExec(s) ==
    LET starts == {i \in 1..Len(s) : markRxAt(s, i) # Null}
    IN IF starts = {} THEN Null ELSE markRxAt(s, Min(starts))

-----------------------------------------------------------------------------
(* buildDecorations: the tree builder *)

ListPrefix == <<"l", "i", "s", "t", "-">>

\* node.name.match(listNodeNameRx), listNodeNameRx = ^list-(\d)
listNodeNameRx(name) ==
    IF /\ Len(name) >= Len(ListPrefix) + 1
       /\ SubSeq(name, 1, Len(ListPrefix)) = ListPrefix
       /\ IsDigit(name[Len(ListPrefix) + 1])
    THEN [g1 |-> <<name[Len(ListPrefix) + 1]>>]
    ELSE Null

parseInt(s) == ToNumber(s)

StaleBuildState ==
    [tasks |-> tasks, rootTask |-> rootTask, currentParent |-> currentParent,
     threw |-> FALSE]

\* const builder; let rootTask = {level: 0, children: []}; currentParent = rootTask
FreshBuildState ==
    [tasks |-> <<>>, rootTask |-> [level |-> 0, children |-> <<>>],
     currentParent |-> RootId, threw |-> FALSE]

LevelOf(b, id) == IF id = RootId THEN b.rootTask.level ELSE b.tasks[id].level

ParentOf(b, id) == IF id = RootId THEN Undefined ELSE b.tasks[id].parent

RECURSIVE PopParentStrict(_, _, _)
PopParentStrict(b, cp, currentTaskLevel) ==
    IF cp # Undefined /\ LevelOf(b, cp) > currentTaskLevel
    THEN PopParentStrict(b, ParentOf(b, cp), currentTaskLevel)
    ELSE cp

\* while (currentParent != null && currentParent.level >= currentTaskLevel)
\*     currentParent = currentParent.parent
RECURSIVE PopParent(_, _, _)
PopParent(b, cp, currentTaskLevel) ==
    IF cp # Undefined /\ LevelOf(b, cp) >= currentTaskLevel
    THEN PopParent(b, ParentOf(b, cp), currentTaskLevel)
    ELSE cp

\* const markPos = (timeRangeMatch != null && timeRangeMatch.length == 3) ? ... : null
MarkPos(node, timeRangeMatch) ==
    IF timeRangeMatch # Null /\ timeRangeMatch.length = 3
    THEN [from |-> node.from + timeRangeMatch.index,
          to |-> node.from + timeRangeMatch.index
                   + timeRangeMatch.g1 + timeRangeMatch.g2]
    ELSE Null

\* the enter callback; reading .children of undefined throws a TypeError
enter(b, node) ==
    LET listNodeMatch == listNodeNameRx(node.name)
    IN IF listNodeMatch = Null THEN b
       ELSE LET currentTaskLevel == parseInt(listNodeMatch.g1)
                endOfLinePosition == node.to
                bulletValue == node.text
                duration == bulletNodeDuration(bulletValue)
                markPos == MarkPos(node, markRxExec(bulletValue))
                parent == PopParent(b, b.currentParent, currentTaskLevel)
                id == Len(b.tasks) + 1
                currentTask == [level |-> currentTaskLevel,
                                position |-> endOfLinePosition,
                                markPos |-> markPos,
                                parent |-> parent,
                                duration |-> duration,
                                children |-> <<>>]
            IN IF parent = Undefined
               THEN [b EXCEPT !.currentParent = Undefined, !.threw = TRUE]
               ELSE IF parent = RootId
               THEN [b EXCEPT !.tasks = Append(@, currentTask),
                              !.rootTask.children = Append(@, id),
                              !.currentParent = id]
               ELSE [b EXCEPT !.tasks = Append([@ EXCEPT ![parent].children =
                                                   Append(@, id)], currentTask),
                              !.currentParent = id]

\* syntaxTree(view.state).iterate({from, to, enter}): the nodes of one range
RECURSIVE iterate(_, _, _)
iterate(b, nodes, k) ==
    IF k > Len(nodes) \/ b.threw THEN b
    ELSE iterate(enter(b, nodes[k]), nodes, k + 1)

VisitRangeResetCursor(b, nodes) ==
    iterate([b EXCEPT !.currentParent = RootId], nodes, 1)

\* the body of  for (let {from, to} of view.visibleRanges)
VisitRange(b, nodes) == iterate(b, nodes, 1)

RECURSIVE VisitRanges(_, _, _)
VisitRanges(b, ranges, r) ==
    IF r > Len(ranges) \/ b.threw THEN b
    ELSE VisitRanges(VisitRange(b, ranges[r]), ranges, r + 1)

-----------------------------------------------------------------------------
(* setTasksDuration and displayDurations *)

ZeroDuration == [hours |-> 0, minutes |-> 0]

\* currentTask.duration == null
NeedsAggregation(task) == task.duration = Null

\* st = [tasks, sums]; the loop of setTasksDuration from index k of taskList
\* with the running duration; yields [tasks, sums, duration]
RECURSIVE setTasksDurationLoop(_, _, _, _)
setTasksDurationLoop(st, taskList, k, duration) ==
    IF k > Len(taskList)
    THEN [tasks |-> st.tasks, sums |-> st.sums, duration |-> duration]
    ELSE LET id == taskList[k]
             r == IF NeedsAggregation(st.tasks[id])
                  THEN LET sub == setTasksDurationLoop(st, st.tasks[id].children,
                                                       1, ZeroDuration)
                       IN [tasks |-> [sub.tasks EXCEPT ![id].duration = sub.duration],
                           sums |-> sub.sums]
                  ELSE st
             d == sumDurations(duration, r.tasks[id].duration)
         IN setTasksDurationLoop([tasks |-> r.tasks, sums |-> r.sums \cup {d}],
                                 taskList, k + 1, d)

setTasksDuration(ts, taskList) ==
    setTasksDurationLoop([tasks |-> ts, sums |-> {}], taskList, 1, ZeroDuration)

MarkDecoration(markPos) ==
    [from |-> markPos.from, to |-> markPos.to, type |-> "mark", timeText |-> ""]

WidgetDecoration(position, durationStr) ==
    [from |-> position, to |-> position, type |-> "widget", timeText |-> durationStr]

ShowsLabelAlways(dur) == dur # Null

\* dur != null && (dur.hours != 0 || dur.minutes != 0)
ShowsLabel(dur) == dur # Null /\ (dur.hours # 0 \/ dur.minutes # 0)

OwnDecorationsLabelFirst(currentTask) ==
    (IF ShowsLabel(currentTask.duration)
     THEN <<WidgetDecoration(currentTask.position,
                             formatDuration(currentTask.duration))>>
     ELSE <<>>)
    \o (IF currentTask.markPos # Null
        THEN <<MarkDecoration(currentTask.markPos)>>
        ELSE <<>>)

\* the builder.add calls displayDurations makes for one task, before its children
OwnDecorations(currentTask) ==
    (IF currentTask.markPos # Null
     THEN <<MarkDecoration(currentTask.markPos)>>
     ELSE <<>>)
    \o (IF ShowsLabel(currentTask.duration)
        THEN <<WidgetDecoration(currentTask.position,
                                formatDuration(currentTask.duration))>>
        ELSE <<>>)

\* displayDurations from index k of taskList: the builder after the calls
RECURSIVE displayDurationsLoop(_, _, _, _)
displayDurationsLoop(builder, ts, taskList, k) ==
    IF k > Len(taskList) THEN builder
    ELSE LET currentTask == ts[taskList[k]]
             own == builder \o OwnDecorations(currentTask)
             sub == displayDurationsLoop(own, ts, currentTask.children, 1)
         IN displayDurationsLoop(sub, ts, taskList, k + 1)

displayDurations(builder, ts, taskList) ==
    displayDurationsLoop(builder, ts, taskList, 1)

\* buildDecorations threw inside iterate: nothing was aggregated or emitted
Thrown(b) ==
    [threw |-> TRUE, tasks |-> b.tasks, rootTask |-> b.rootTask,
     currentParent |-> b.currentParent, total |-> ZeroDuration,
     sums |-> {}, decorations |-> <<>>]

\* displayDurations(builder, rootTask.children); return builder.finish()
Returned(b, agg) ==
    [threw |-> FALSE, tasks |-> agg.tasks, rootTask |-> b.rootTask,
     currentParent |-> b.currentParent, total |-> agg.duration,
     sums |-> agg.sums,
     decorations |-> displayDurations(<<>>, agg.tasks, b.rootTask.children)]

\* setTasksDuration(rootTask.children), once the ranges are visited
AfterRanges(b) ==
    IF b.threw THEN Thrown(b)
    ELSE Returned(b, setTasksDuration(b.tasks, b.rootTask.children))

\* buildDecorations(view): the build state when it returns or throws
buildDecorations(v) ==
    AfterRanges(VisitRanges(FreshBuildState, v.visibleRanges, 1))

-----------------------------------------------------------------------------
(* The plugin: constructor and update *)

NoUpdate == [kind |-> "none", docChanged |-> FALSE, viewportChanged |-> FALSE]

\* a constructor that throws leaves no plugin instance to update
Constructed ==
    /\ lastUpdate.kind # "none"
    /\ ~(lastUpdate.kind = "constructor" /\ status = "threw")

\* this.decorations = <the build r>; a throw leaves the field as it was
Assign(r) ==
    /\ tasks' = r.tasks
    /\ rootTask' = r.rootTask
    /\ currentParent' = r.currentParent
    /\ total' = r.total
    /\ sums' = r.sums
    /\ status' = IF r.threw THEN "threw" ELSE "built"
    /\ decorations' = IF r.threw THEN decorations ELSE r.decorations

AssignDecorations(v) == Assign(buildDecorations(v))

Constructor ==
    /\ lastUpdate.kind = "none"
    /\ view' = view
    /\ lastUpdate' = [NoUpdate EXCEPT !.kind = "constructor"]
    /\ builtView' = view
    /\ AssignDecorations(view)

\* if (update.docChanged || update.viewportChanged)
Rebuilds(update) == update.docChanged \/ update.viewportChanged

Update(v, docChanged, viewportChanged) ==
    /\ Constructed
    /\ view' = v
    /\ lastUpdate' = [kind |-> "update", docChanged |-> docChanged,
                      viewportChanged |-> viewportChanged]
    /\ builtView' = IF docChanged \/ viewportChanged THEN v ELSE builtView
    /\ IF Rebuilds(lastUpdate')
       THEN AssignDecorations(v)
       ELSE UNCHANGED <<decorations, tasks, rootTask, currentParent, total,
                        sums, status>>

-----------------------------------------------------------------------------
(* The views the host hands in *)

MaxTreeNodes == 4
MaxAggNodes == 3
MaxSegments == 4

SeqsUpTo(S, n) == UNION {[1..m -> S] : m \in 0..n}

\* the name of a list node of depth d, and of a node that is no list item
ListName(d) == ListPrefix \o <<DigitChars[d + 1]>>

OtherName == <<"e", "m">>

\* the nodes of descriptors descs (name, text), the first starting at pos,
\* each starting gap characters after the end of the one before
RECURSIVE Layout(_, _, _, _)
Layout(descs, k, pos, gap) ==
    IF k > Len(descs) THEN <<>>
    ELSE LET to == pos + Len(descs[k].text)
         IN <<[name |-> descs[k].name, from |-> pos, to |-> to,
               text |-> descs[k].text]>>
            \o Layout(descs, k + 1, to + gap, gap)

\* nodes cut into visible ranges after each index of cuts
RECURSIVE CutRanges(_, _, _, _)
CutRanges(nodes, cuts, k, cur) ==
    IF k > Len(nodes) THEN <<cur>>
    ELSE IF k \in cuts /\ k < Len(nodes)
    THEN <<Append(cur, nodes[k])>> \o CutRanges(nodes, cuts, k + 1, <<>>)
    ELSE CutRanges(nodes, cuts, k + 1, Append(cur, nodes[k]))

ViewOf(descs, gap, cuts) ==
    [visibleRanges |-> CutRanges(Layout(descs, 1, 0, gap), cuts, 1, <<>>)]

Chars(n) == [k \in 1..n |-> "x"]

Clock(h1, h2, m1, m2) ==
    <<DigitChars[h1 + 1], DigitChars[h2 + 1], ":",
      DigitChars[m1 + 1], DigitChars[m2 + 1]>>

\* tree shapes: every name at every place, every cut into visible ranges;
\* the depths are digits the name pattern captures, 0 among them
TreeLevels == 0..3

TreeNames == {ListName(d) : d \in TreeLevels} \cup {OtherName}

TreeViews ==
    {ViewOf([k \in 1..Len(names) |-> [name |-> names[k], text |-> Chars(1)]], 1, cuts)
        : names \in SeqsUpTo(TreeNames, MaxTreeNodes),
          cuts \in SUBSET (1..(MaxTreeNodes - 1))}

\* durations: list items of depth 1..3 in document order, each line starting
\* where the one before ends; a line without a time, one with a 50 minute
\* range after a first character, one with twice the same time and no dash,
\* one with a single time
AggLevels == 1..3

AggTexts ==
    {Chars(1),
     Chars(1) \o Clock(0, 9, 1, 0) \o <<" ", EnDash, " ">> \o Clock(1, 0, 0, 0),
     Clock(0, 9, 3, 0) \o <<" ">> \o Clock(0, 9, 3, 0),
     Clock(1, 0, 0, 0)}

AggDescs == {[name |-> ListName(d), text |-> t] : d \in AggLevels, t \in AggTexts}

AggViews == {ViewOf(descs, 0, {}) : descs \in SeqsUpTo(AggDescs, MaxAggNodes)}

\* clock strings: one list item holding a pair of two-digit tokens
ClockTokens ==
    {Clock(h1, h2, m1, m2) : h1 \in {0, 2, 9}, h2 \in {0, 1, 3, 9},
                             m1 \in {0, 5, 9}, m2 \in {0, 9}}

ClockViews ==
    {ViewOf(<<[name |-> ListName(1), text |-> t1 \o <<"-">> \o t2]>>, 0, {})
        : t1 \in ClockTokens, t2 \in ClockTokens}

\* line texts: every concatenation of up to MaxSegments segments
Segments ==
    {Clock(0, 9, 0, 0), Clock(1, 0, 1, 5), <<":", "1", "5">>, <<"-">>, <<" ">>,
     <<"x">>, <<"\n">>}

RECURSIVE Concat(_, _)
Concat(segs, k) == IF k > Len(segs) THEN <<>> ELSE segs[k] \o Concat(segs, k + 1)

LineTexts == {Concat(segs, 1) : segs \in SeqsUpTo(Segments, MaxSegments)}

LineViews ==
    {ViewOf(<<[name |-> ListName(1), text |-> t]>>, 0, {}) : t \in LineTexts}

\* the views of an editing session: an empty document, an item with a time
\* range, an item over a timed item, two timed items under an item, and a
\* document holding a node named list-0
LifeTimed(d) ==
    [name |-> ListName(d),
     text |-> Clock(0, 9, 0, 0) \o <<"-">> \o Clock(1, 0, 1, 5)]

LifePlain(d) == [name |-> ListName(d), text |-> Chars(1)]

LifeViews ==
    {ViewOf(descs, 1, {}) :
        descs \in {<<>>,
                   <<LifePlain(1)>>,
                   <<LifeTimed(1)>>,
                   <<LifePlain(1), LifeTimed(2)>>,
                   <<LifePlain(1), LifeTimed(2), LifeTimed(2)>>,
                   <<LifeTimed(1), LifeTimed(1)>>,
                   <<LifeTimed(1), LifePlain(0)>>}}

-----------------------------------------------------------------------------
(* Specifications *)

InitWith(views) ==
    /\ view \in views
    /\ lastUpdate = NoUpdate
    /\ decorations = <<>>
    /\ tasks = <<>>
    /\ rootTask = [level |-> 0, children |-> <<>>]
    /\ currentParent = RootId
    /\ total = ZeroDuration
    /\ sums = {}
    /\ status = "none"
    /\ builtView = view

Init == InitWith(LifeViews)

Next ==
    \/ Constructor
    \/ \E v \in LifeViews, docChanged \in BOOLEAN, viewportChanged \in BOOLEAN :
          Update(v, docChanged, viewportChanged)

Spec == Init /\ [][Next]_vars

InitTree == InitWith(TreeViews)

SpecTree == InitTree /\ [][Constructor]_vars

InitAgg == InitWith(AggViews \cup ClockViews)

SpecAgg == InitAgg /\ [][Constructor]_vars

InitLine == InitWith(LineViews)

SpecLine == InitLine /\ [][Constructor]_vars

InitClock == InitWith(ClockViews)

SpecClock == InitClock /\ [][Constructor]_vars

-----------------------------------------------------------------------------
(* What the properties below read off a view *)

RECURSIVE Flatten(_, _)
Flatten(ranges, r) ==
    IF r > Len(ranges) THEN <<>> ELSE ranges[r] \o Flatten(ranges, r + 1)

IsListNode(node) == listNodeNameRx(node.name) # Null

\* the list nodes of a view, in the order the build meets them
StreamOf(v) == SelectSeq(Flatten(v.visibleRanges, 1), IsListNode)

LevelsOf(v) ==
    [k \in 1..Len(StreamOf(v)) |-> parseInt(listNodeNameRx(StreamOf(v)[k].name).g1)]

Max(S) == CHOOSE m \in S : \A n \in S : m >= n

\* the nearest index before k holding a strictly smaller level, 0 for the root
NearestSmaller(levels, k) ==
    LET smaller == {j \in 1..(k - 1) : levels[j] < levels[k]}
    IN IF smaller = {} THEN RootId ELSE Max(smaller)

Ascending(seq) == \A i, j \in 1..Len(seq) : i < j => seq[i] < seq[j]

Range(seq) == {seq[i] : i \in 1..Len(seq)}

Built == lastUpdate.kind # "none" /\ status = "built"

-----------------------------------------------------------------------------
(* C1 *)

\* C1: when every list node of the stream has a level >= 1, the build makes
\* one task per list node, in stream order; the parent of each task is the
\* nearest preceding task of strictly smaller level, the root when there is
\* none; and the children list of each parent holds exactly the tasks that
\* name it as parent, once each, in stream order.
C1_ParentIsNearestSmallerLevel ==
    (lastUpdate.kind # "none" /\ \A k \in DOMAIN LevelsOf(view) : LevelsOf(view)[k] >= 1)
    => /\ Len(tasks) = Len(StreamOf(view))
       /\ \A k \in 1..Len(tasks) :
             /\ tasks[k].level = LevelsOf(view)[k]
             /\ tasks[k].parent = NearestSmaller(LevelsOf(view), k)
             /\ tasks[k].parent \in 0..(k - 1)
             /\ (tasks[k].parent # RootId
                   => tasks[tasks[k].parent].level < tasks[k].level)
       /\ rootTask.level = 0
       /\ Ascending(rootTask.children)
       /\ Range(rootTask.children) = {k \in 1..Len(tasks) : tasks[k].parent = RootId}
       /\ \A p \in 1..Len(tasks) :
             /\ Ascending(tasks[p].children)
             /\ Range(tasks[p].children) = {k \in 1..Len(tasks) : tasks[k].parent = p}

\* a build of four tasks in which a task jumps more than one level below its
\* parent and a later task, after a dedent, goes under a task that is neither
\* the root nor the task just before it
C1_Witness ==
    /\ Built
    /\ Len(tasks) = 4
    /\ \E k \in 1..Len(tasks) :
          tasks[k].parent # RootId /\ tasks[k].level > tasks[tasks[k].parent].level + 1
    /\ \E k \in 1..Len(tasks) :
          tasks[k].parent # RootId /\ tasks[k].parent < k - 1

-----------------------------------------------------------------------------
(* C6 *)

\* C6: whatever nodes the name pattern accepts, the pop loop leaves the
\* cursor on the root or on a task, never undefined, and the build returns.
C6_BuildNeverThrows ==
    lastUpdate.kind # "none" => (status = "built" /\ currentParent # Undefined)

-----------------------------------------------------------------------------
(* C7 *)

FlatView(v) == [visibleRanges |-> <<Flatten(v.visibleRanges, 1)>>]

\* the first node of range r of the view is list node number ... of the stream
FirstOfLaterRange(v, k) ==
    \E r \in 2..Len(v.visibleRanges) :
        /\ v.visibleRanges[r] # <<>>
        /\ IsListNode(v.visibleRanges[r][1])
        /\ k = Len(SelectSeq(Flatten(SubSeq(v.visibleRanges, 1, r - 1), 1),
                             IsListNode)) + 1

\* C7: a build over the visible ranges ends exactly as a build over their
\* concatenation taken as one range does (same tasks, root, cursor, outcome
\* and decorations), and the task made for the first list node of a later
\* range hangs under the nearest preceding task of smaller level.
C7_RangesShareOneTree ==
    lastUpdate.kind # "none"
    => /\ tasks = buildDecorations(FlatView(view)).tasks
       /\ rootTask = buildDecorations(FlatView(view)).rootTask
       /\ currentParent = buildDecorations(FlatView(view)).currentParent
       /\ (status = "threw") = buildDecorations(FlatView(view)).threw
       /\ (status = "built"
             => decorations = buildDecorations(FlatView(view)).decorations)
       /\ \A k \in 1..Len(tasks) :
             (status = "built" /\ FirstOfLaterRange(view, k))
             => tasks[k].parent = NearestSmaller(LevelsOf(view), k)

\* a build over several ranges in which the first task of a later range went
\* under a task of an earlier range
C7_Witness ==
    /\ Built
    /\ Len(view.visibleRanges) >= 2
    /\ \E k \in 1..Len(tasks) :
          FirstOfLaterRange(view, k) /\ tasks[k].parent # RootId

-----------------------------------------------------------------------------
(* What the properties below read off durations *)

Minutes(d) == IF d = Null THEN 0 ELSE d.hours * 60 + d.minutes

OfMinutes(m) == [hours |-> m \div 60, minutes |-> m % 60]

RECURSIVE MinutesOfAll(_, _)
MinutesOfAll(ids, k) ==
    IF k > Len(ids) THEN 0
    ELSE Minutes(tasks[ids[k]].duration) + MinutesOfAll(ids, k + 1)

\* what the line of task k parsed to
ParsedDuration(k) == bulletNodeDuration(StreamOf(view)[k].text)

Normalized(d) == d.hours \in Nat /\ d.minutes \in 0..59

-----------------------------------------------------------------------------
(* C2 *)

\* C2: after the build every task has a duration; a task whose line parsed
\* to a duration holds exactly that one, a task whose line parsed to none
\* holds the normalized minute sum of its children's durations; and
\* setTasksDuration returned the sum of the top-level durations.
C2_EveryTaskHasItsDuration ==
    Built
    => /\ \A k \in 1..Len(tasks) :
             /\ tasks[k].duration # Null
             /\ (ParsedDuration(k) # Null => tasks[k].duration = ParsedDuration(k))
             /\ (ParsedDuration(k) = Null
                   => tasks[k].duration = OfMinutes(MinutesOfAll(tasks[k].children, 1)))
       /\ total = OfMinutes(MinutesOfAll(rootTask.children, 1))

-----------------------------------------------------------------------------
(* C3 *)

ExpectedMark(k) ==
    IF tasks[k].markPos = Null THEN <<>>
    ELSE <<[from |-> tasks[k].markPos.from, to |-> tasks[k].markPos.to,
            type |-> "mark", timeText |-> ""]>>

ExpectedLabel(k) ==
    IF tasks[k].duration = Null \/ tasks[k].duration = ZeroDuration THEN <<>>
    ELSE <<[from |-> tasks[k].position, to |-> tasks[k].position,
            type |-> "widget",
            timeText |-> IF tasks[k].duration.hours = 0
                         THEN ToString(tasks[k].duration.minutes) \o " mins"
                         ELSE ToString(tasks[k].duration.hours) \o " h "
                              \o ToString(tasks[k].duration.minutes) \o " mins"]>>

RECURSIVE InStreamOrder(_)
InStreamOrder(k) ==
    IF k > Len(tasks) THEN <<>>
    ELSE ExpectedMark(k) \o ExpectedLabel(k) \o InStreamOrder(k + 1)

\* C3: for list items in document order the builder.add calls are
\* non-decreasing in start position; they are, task after task in the order
\* of the stream, the task's highlight (which starts before the task's
\* position) and then its label, so before those of any later task, its
\* descendants among them.
C3_AddsInDocumentOrder ==
    Built
    => /\ \A i, j \in 1..Len(decorations) :
             i < j => decorations[i].from <= decorations[j].from
       /\ decorations = InStreamOrder(1)
       /\ \A k \in 1..Len(tasks) :
             tasks[k].markPos # Null => tasks[k].markPos.from < tasks[k].position

\* a build with a nested task whose highlight starts exactly where the label
\* of the task before it was put
C3_Witness ==
    /\ Built
    /\ \E k \in 2..Len(tasks) :
          /\ tasks[k].parent # RootId
          /\ \E i \in 1..(Len(decorations) - 1) :
                /\ decorations[i].type = "widget"
                /\ decorations[i].from = tasks[k - 1].position
                /\ decorations[i + 1].type = "mark"
                /\ decorations[i + 1].from = decorations[i].from
                /\ decorations[i + 1] = ExpectedMark(k)[1]

-----------------------------------------------------------------------------
(* C5 *)

IsWidget(deco) == deco.type = "widget"

RECURSIVE LabelsInStreamOrder(_)
LabelsInStreamOrder(k) ==
    IF k > Len(tasks) THEN <<>> ELSE ExpectedLabel(k) \o LabelsInStreamOrder(k + 1)

\* C5: the labels among the decorations are, in stream order, one label at
\* the position of each task whose duration is defined and not 0 h 0 mins,
\* none for any other task and none for the root; the text of a label is
\* "<minutes> mins" when hours is 0 and "<hours> h <minutes> mins" otherwise.
C5_OneLabelPerNonZeroDuration ==
    Built
    => /\ SelectSeq(decorations, IsWidget) = LabelsInStreamOrder(1)
       /\ \A k \in 1..Len(tasks) :
             Len(SelectSeq(decorations,
                           LAMBDA deco : IsWidget(deco) /\ deco.from = tasks[k].position))
             = IF tasks[k].duration # Null /\ Minutes(tasks[k].duration) # 0
               THEN 1 ELSE 0

\* a build with a task whose line parsed to 0 h 0 mins, which gets no label,
\* under a task whose duration was aggregated and gets one
C5_Witness ==
    /\ Built
    /\ \E k \in 1..Len(tasks) :
          /\ ParsedDuration(k) = ZeroDuration
          /\ tasks[k].duration = ZeroDuration
          /\ tasks[k].parent # RootId
          /\ ParsedDuration(tasks[k].parent) = Null
          /\ Minutes(tasks[tasks[k].parent].duration) > 0
          /\ \E i \in 1..Len(decorations) :
                /\ IsWidget(decorations[i])
                /\ decorations[i].from = tasks[tasks[k].parent].position

-----------------------------------------------------------------------------
(* C10 *)

\* C10: every duration a task holds, every value sumDurations returned
\* during the build and the value setTasksDuration returned have hours a
\* natural number and minutes in 0..59.
C10_DurationsAreNormalized ==
    Built
    => /\ \A k \in 1..Len(tasks) :
             tasks[k].duration # Null => Normalized(tasks[k].duration)
       /\ \A d \in sums : Normalized(d)
       /\ Normalized(total)

\* a build in which summing carried minutes into hours: no line parsed to an
\* hour or more, and a sum reached one
C10_Witness ==
    /\ Built
    /\ \A k \in 1..Len(tasks) :
          ParsedDuration(k) # Null => ParsedDuration(k).hours = 0
    /\ \E d \in sums : d.hours > 0 /\ d.minutes > 0

-----------------------------------------------------------------------------
(* C4 *)

TokenStarts(s) == {i \in 1..Len(s) : IsTokenAt(s, i)}

LineText == view.visibleRanges[1][1].text

\* C4: a line that does not hold two HH:MM tokens gets neither a duration
\* nor a highlight span, and no highlight is added for it.
C4_NoSpanWithoutTwoTokens ==
    (Built /\ Cardinality(TokenStarts(LineText)) < 2)
    => /\ ParsedDuration(1) = Null
       /\ tasks[1].markPos = Null
       /\ \A i \in 1..Len(decorations) : decorations[i].type # "mark"

-----------------------------------------------------------------------------
(* C9 *)

ClockMinutes(t) ==
    (DigitValue(t[1]) * 10 + DigitValue(t[2])) * 60
    + DigitValue(t[4]) * 10 + DigitValue(t[5])

FirstClock == SubSeq(LineText, 1, 5)

SecondClock == SubSeq(LineText, 7, 11)

\* C9: the duration of a line "t1-t2" is the absolute difference of the two
\* clock times in minutes, split into hours = total div 60 and minutes =
\* total mod 60; diffDuration gives the same for the two times swapped; and
\* 23:00 to 01:00 gives 22 h 0 mins.
C9_DiffIsAbsoluteDifference ==
    Built
    => /\ tasks[1].duration
            = OfMinutes(Abs(ClockMinutes(SecondClock) - ClockMinutes(FirstClock)))
       /\ diffDuration(SecondClock, FirstClock) = tasks[1].duration
       /\ diffDuration(FirstClock, SecondClock) = tasks[1].duration
       /\ (FirstClock = Clock(2, 3, 0, 0) /\ SecondClock = Clock(0, 1, 0, 0)
             => tasks[1].duration = [hours |-> 22, minutes |-> 0])

\* the line 23:00-01:00 was built and holds 22 h 0 mins
C9_Witness ==
    /\ Built
    /\ FirstClock = Clock(2, 3, 0, 0)
    /\ SecondClock = Clock(0, 1, 0, 0)
    /\ tasks[1].duration = [hours |-> 22, minutes |-> 0]

-----------------------------------------------------------------------------
(* C8 *)

\* the decorations are those of a build of the view of the latest event
\* that was the constructor or an update with a flag set
DecorationsOfLatestBuild ==
    Built => decorations = buildDecorations(builtView).decorations

\* an update with neither flag leaves the decorations alone
PlainUpdateKeepsDecorations ==
    (lastUpdate'.kind = "update" /\ ~lastUpdate'.docChanged
       /\ ~lastUpdate'.viewportChanged)
    => decorations' = decorations

\* a second build of the view that was built before yields the same again
RebuildOfSameViewIsIdentical ==
    (/\ Built
     /\ status' = "built"
     /\ lastUpdate'.kind = "update"
     /\ (lastUpdate'.docChanged \/ lastUpdate'.viewportChanged)
     /\ view' = builtView)
    => decorations' = decorations

\* C8: at every moment the decorations are the result of buildDecorations on
\* the view of the latest event that was the constructor or an update with
\* docChanged or viewportChanged (when that build returned); an update with
\* neither flag leaves them unchanged; and building again the view built
\* before yields identical decorations, whatever was built in between.
C8_DecorationsFollowLatestBuild ==
    /\ []DecorationsOfLatestBuild
    /\ [][PlainUpdateKeepsDecorations /\ RebuildOfSameViewIsIdentical]_vars

\* after an update with neither flag on another view: the decorations are
\* still those of the view built before, not those of the view of the update
C8_Witness ==
    /\ Built
    /\ lastUpdate.kind = "update"
    /\ ~lastUpdate.docChanged
    /\ ~lastUpdate.viewportChanged
    /\ view # builtView
    /\ decorations # <<>>
    /\ ~buildDecorations(view).threw
    /\ decorations # buildDecorations(view).decorations

====
